---- MODULE Spec2Model ----
\* Model of zrpc/internal/serverinterceptors/timeoutinterceptor.go:
\* the per-method timeout registry, the timeout resolver and the wrapper
\* returned by UnaryTimeoutInterceptor (supervising goroutine, worker
\* goroutine, call context, result slot, done channel and panic channel).
EXTENDS Integers, Sequences, FiniteSets, TLC

\* ---------------------------------------------------------------------
\* Bounds
\* ---------------------------------------------------------------------
\* durations are 0..MaxDur; 0 is a timeout that has expired when it is set
MaxDur == 2

\* ---------------------------------------------------------------------
\* Program constants and value domains
\* ---------------------------------------------------------------------
\* panicChan := make(chan any, 1)
PanicChanCap == 1

Routes == {"/a", "/b"}
Durations == 0..MaxDur

\* error values: the nil error, an error returned by a handler, and
\* status.Error(code, msg)
NilErr == [type |-> "nil", code |-> "", msg |-> ""]
HandlerErr == [type |-> "handler", code |-> "Unknown", msg |-> "herr"]
StatusError(code, msg) == [type |-> "status", code |-> code, msg |-> msg]

\* resp values: nil or a response
NilResp == "nil"
\* what a handler may return: (resp, err)
HandlerResults == {[resp |-> "ok", err |-> NilErr], [resp |-> NilResp, err |-> HandlerErr]}
\* the zero values of `var resp any; var err error`
EmptySlot == [resp |-> NilResp, err |-> NilErr]

\* values a handler may panic with; "nilpanic" is panic(nil)
FaultValues == {"boom", "nilpanic"}
\* debug.Stack() of the worker goroutine, trimmed
StackTrace == "goroutine stack"
NoPanic == [desc |-> "", sep |-> "", stack |-> ""]

\* what recover() may return for a panic value: the value itself; for
\* panic(nil) either nil (Go before 1.21) or a *runtime.PanicNilError
Recovered(p) == IF p = "nilpanic" THEN {"nil", "PanicNilError"} ELSE {p}

\* fmt.Sprintf("%+v\n\n%s", p, strings.TrimSpace(string(debug.Stack())))
RelayedFailure(p, stk) == [desc |-> p, sep |-> "\n\n", stack |-> stk]

\* ctx.Err().Error()
CtxErrMsg(e) == IF e = "Canceled" THEN "context canceled" ELSE "context deadline exceeded"

\* lines 60-65: err := ctx.Err(); mapped to a status error
CtxErrToStatusRaw(e) == [type |-> "context", code |-> e, msg |-> CtxErrMsg(e)]
CtxErrToStatusSwapped(e) ==
    IF e = "Canceled" THEN StatusError("DeadlineExceeded", CtxErrMsg(e))
    ELSE StatusError("Canceled", CtxErrMsg(e))
CtxErrToStatusAlwaysDeadline(e) ==
    StatusError("DeadlineExceeded", "context deadline exceeded")
CtxErrToStatus(e) ==
    IF e = "Canceled" THEN StatusError("Canceled", CtxErrMsg(e))
    ELSE StatusError("DeadlineExceeded", CtxErrMsg(e))

\* the wrapper's view of an invocation: Pending until it returns or panics
Pending == [kind |-> "Pending", resp |-> NilResp, err |-> NilErr, panic |-> NoPanic]
Returned(r, e) ==
    [kind |-> IF e.type = "status" /\ e.code \in {"Canceled", "DeadlineExceeded"} THEN e.code
              ELSE IF e.type = "nil" THEN "Succeeded" ELSE "Failed",
     resp |-> r, err |-> e, panic |-> NoPanic]
Panicked(p) == [kind |-> "Faulted", resp |-> NilResp, err |-> NilErr, panic |-> p]

VARIABLES
    timeout,          \* the closure variable `timeout` of the wrapper
    defaultTimeout,   \* the argument UnaryTimeoutInterceptor was called with
    methodTimeout,    \* var methodTimeout sync.Map (route -> duration)
    route,            \* info.FullMethod of the observed invocation
    strat,            \* whether info.Server implements TimeoutStrategy
    tmp,              \* value returned by getTimeoutByUnaryServerInfo, before it is assigned
    via,              \* which branch of getTimeoutByUnaryServerInfo returned
    effTimeout,       \* the timeout the call context was created with
    inboundCanceled,  \* the inbound ctx has been canceled
    ctxErr,           \* ctx.Err() of the call context: none / Canceled / DeadlineExceeded
    spc,              \* position of the supervising goroutine
    wpc,              \* position of the worker goroutine
    lock,             \* var lock sync.Mutex: free / worker / supervisor
    done,             \* done channel closed
    panicChan,        \* buffer of panicChan
    recvd,            \* value received from panicChan by the select
    slot,             \* the variables resp, err
    outcome,          \* what the wrapper returned (or panicked with)
    hret,             \* history: what the handler returned
    hfault,           \* history: what the handler panicked with
    hrecovered,       \* history: what recover() returned
    ctxAtRet,         \* history: ctx.Err() when the handler returned or panicked
    ctxAtDone,        \* history: ctx.Err() when done was closed
    readyAt,          \* history: which select cases were ready when the race was decided
    sends,            \* history: number of sends on panicChan
    writes,           \* history: number of writes of the slot
    reads,            \* history: number of reads of the slot by the supervisor
    exits,            \* history: number of times the wrapper returned or panicked
    stratCall,        \* history: the call of GetTimeoutByFullMethod made by the resolution
    lastSet,          \* history: the duration of the latest SetTimeoutForFullMethod per route
    beginEntry,       \* history: the latest write to the route completed when a registry lookup began
    writtenSince,     \* history: durations written to the route since that lookup began
    resolves,         \* history: number of calls of getTimeoutByUnaryServerInfo
    deadlinePassed,   \* history: the deadline of the call context has passed
    firstCause        \* history: what ended the call context first, the wrapper's cancel() aside

vars == <<timeout, defaultTimeout, methodTimeout, route, strat, tmp, via,
          effTimeout, inboundCanceled, ctxErr, spc, wpc, lock, done, panicChan, recvd, slot,
          outcome, hret, hfault, hrecovered, ctxAtRet, ctxAtDone, readyAt, sends, writes,
          reads, exits, stratCall, lastSet, beginEntry, writtenSince, resolves, deadlinePassed,
          firstCause>>

resolverVars == <<timeout, methodTimeout, tmp, via, effTimeout>>
infoVars == <<defaultTimeout, route, strat>>
workerHist == <<hret, hfault, hrecovered, ctxAtRet, ctxAtDone, sends, writes>>
execVars == <<inboundCanceled, ctxErr, spc, wpc, lock, done, panicChan, recvd, slot, outcome,
              readyAt, reads, exits>>

resolveHist == <<stratCall, lastSet, beginEntry, writtenSince, resolves>>
ctxHist == <<deadlinePassed, firstCause>>

\* no write to the route, and no call of the strategy
Unset == 0 - 1
NoStratCall == [called |-> FALSE, route |-> "", dflt |-> 0, ret |-> 0]
NoRet == [resp |-> "none", err |-> NilErr]
NothingReady == [panic |-> FALSE, done |-> FALSE, ctx |-> "none"]

\* the state after `UnaryTimeoutInterceptor(d)` has returned the wrapper
Init ==
    /\ defaultTimeout = MaxDur
    /\ timeout = defaultTimeout
    /\ methodTimeout = [r \in {} |-> 0]
    /\ route = "/a"
    /\ strat = FALSE
    /\ tmp = 0
    /\ via = "none"
    /\ effTimeout = 0
    /\ inboundCanceled = FALSE
    /\ ctxErr = "none"
    /\ spc = "idle"
    /\ wpc = "none"
    /\ lock = "free"
    /\ done = FALSE
    /\ panicChan = <<>>
    /\ recvd = NoPanic
    /\ slot = EmptySlot
    /\ outcome = Pending
    /\ hret = NoRet
    /\ hfault = "none"
    /\ hrecovered = "none"
    /\ ctxAtRet = "none"
    /\ ctxAtDone = "unset"
    /\ readyAt = NothingReady
    /\ sends = 0
    /\ writes = 0
    /\ reads = 0
    /\ exits = 0
    /\ stratCall = NoStratCall
    /\ lastSet = [r \in Routes |-> Unset]
    /\ beginEntry = Unset
    /\ writtenSince = {}
    /\ resolves = 0
    /\ deadlinePassed = FALSE
    /\ firstCause = "none"

\* ---------------------------------------------------------------------
\* Timeout registry and resolver
\* ---------------------------------------------------------------------
\* methodTimeout.Store(fullMethod, timeout)
StoreKeepFirst(m, r, d) == IF r \in DOMAIN m THEN m ELSE [x \in (DOMAIN m) \cup {r} |-> d]
Store(m, r, d) == [x \in (DOMAIN m) \cup {r} |-> IF x = r THEN d ELSE m[x]]

SetTimeoutForFullMethod(r, d) ==
    /\ methodTimeout' = Store(methodTimeout, r, d)
    /\ lastSet' = [lastSet EXCEPT ![r] = d]
    /\ writtenSince' = IF spc = "resolve" /\ ~strat /\ r = route
                       THEN writtenSince \cup {d}
                       ELSE writtenSince
    /\ UNCHANGED <<stratCall, beginEntry, resolves, ctxHist>>
    /\ UNCHANGED <<timeout, tmp, via, effTimeout, infoVars, workerHist, execVars>>

\* getTimeoutByUnaryServerInfo(info, defaultTimeout): the branch taken and
\* the value returned; sv is what the server's GetTimeoutByFullMethod
\* returns. Only durations are ever stored, so the type assertion holds.
ResolvedVia(hasStrategy, r, m) ==
    IF hasStrategy THEN "strategy"
    ELSE IF r \in DOMAIN m THEN "registry"
    ELSE "default"
getTimeoutByUnaryServerInfoRegistryFirst(hasStrategy, sv, r, m, dflt) ==
    IF r \in DOMAIN m THEN m[r]
    ELSE IF hasStrategy THEN sv
    ELSE dflt
getTimeoutByUnaryServerInfoOtherKey(hasStrategy, sv, r, m, dflt) ==
    IF hasStrategy THEN sv
    ELSE IF DOMAIN m # {} THEN m[CHOOSE x \in DOMAIN m : \A y \in DOMAIN m : m[x] <= m[y]]
    ELSE dflt
getTimeoutByUnaryServerInfo(hasStrategy, sv, r, m, dflt) ==
    IF hasStrategy THEN sv
    ELSE IF r \in DOMAIN m THEN m[r]
    ELSE dflt

\* line 28, left-hand side: the value the wrapper's closure variable holds
\* after `timeout = getTimeoutByUnaryServerInfo(info, timeout)`
Assigned(old, new) == new

\* Another invocation of the same wrapper, running concurrently with the
\* observed one, any number of times. Line 28 is all an invocation shares
\* with another: it reads `timeout` and the registry, then writes `timeout`;
\* its call context, worker and locals are its own. The read and the write
\* are one step here: a write delayed after its read stores a duration, and
\* every duration is also stored by an undelayed invocation on a server
\* whose TimeoutStrategy returns it.
OtherInvocation(r, s, sv) ==
    /\ timeout' = Assigned(timeout, getTimeoutByUnaryServerInfo(s, sv, r, methodTimeout, timeout))
    /\ UNCHANGED <<resolveHist, ctxHist>>
    /\ UNCHANGED <<methodTimeout, tmp, via, effTimeout, infoVars, workerHist, execVars>>

\* ---------------------------------------------------------------------
\* Call context
\* ---------------------------------------------------------------------
\* the call context exists once context.WithTimeout has returned
CtxExists == spc \notin {"idle", "resolve", "assign", "withTimeout"}

\* context.WithTimeout(ctx, d): a child of a canceled parent is canceled at
\* once, a deadline that has already passed (d <= 0) expires it at once
NewCtxErr(parentCanceled, d) ==
    IF parentCanceled THEN "Canceled"
    ELSE IF d <= 0 THEN "DeadlineExceeded"
    ELSE "none"

\* cancel(): the first cause is kept
AfterCancelNoop(e) == e
AfterCancel(e) == IF e = "none" THEN "Canceled" ELSE e

\* a goroutine parked in the select is resumed by the first channel
\* operation that makes one of its cases ready, with that case
WakeSpcAlways(c) == c
WakeSpc(c) == IF spc = "parked" THEN c ELSE spc
WakeReady(snap) == IF spc = "parked" THEN snap ELSE readyAt

\* the deadline of the call context passes while the wrapper is running: the
\* timer fires and ends the context, unless the context has ended already
\* (its timer was stopped then)
DeadlineFires ==
    /\ CtxExists
    /\ ~deadlinePassed
    /\ spc \notin {"returned", "panicked"}
    /\ deadlinePassed' = TRUE
    /\ IF ctxErr = "none"
       THEN /\ ctxErr' = "DeadlineExceeded"
            /\ firstCause' = "DeadlineExceeded"
            /\ spc' = WakeSpc("caseCtx")
            /\ readyAt' = WakeReady([NothingReady EXCEPT !.ctx = "DeadlineExceeded"])
       ELSE UNCHANGED <<ctxErr, firstCause, spc, readyAt>>
    /\ UNCHANGED resolveHist
    /\ UNCHANGED <<resolverVars, infoVars, workerHist, inboundCanceled, wpc, lock, done,
                   panicChan, recvd, slot, outcome, reads, exits>>

\* the caller cancels the inbound context
CancelInbound ==
    /\ spc # "idle"
    /\ ~inboundCanceled
    /\ inboundCanceled' = TRUE
    /\ IF CtxExists /\ ctxErr = "none"
       THEN /\ ctxErr' = "Canceled"
            /\ firstCause' = "Canceled"
            /\ spc' = WakeSpc("caseCtx")
            /\ readyAt' = WakeReady([NothingReady EXCEPT !.ctx = "Canceled"])
       ELSE UNCHANGED <<ctxErr, firstCause, spc, readyAt>>
    /\ UNCHANGED <<resolveHist, deadlinePassed>>
    /\ UNCHANGED <<resolverVars, infoVars, workerHist, wpc, lock, done,
                   panicChan, recvd, slot, outcome, reads, exits>>

\* ---------------------------------------------------------------------
\* Supervising goroutine: the wrapper returned by UnaryTimeoutInterceptor
\* ---------------------------------------------------------------------
\* the wrapper is called for route r on a server that does (s) or does not
\* implement TimeoutStrategy
Invoke(r, s) ==
    /\ spc = "idle"
    /\ route' = r
    /\ strat' = s
    /\ spc' = "resolve"
    /\ beginEntry' = IF s THEN Unset ELSE lastSet[r]
    /\ writtenSince' = {}
    /\ UNCHANGED <<stratCall, lastSet, resolves, ctxHist>>
    /\ UNCHANGED <<resolverVars, defaultTimeout, workerHist, inboundCanceled, ctxErr, wpc,
                   lock, done, panicChan, recvd, slot, outcome, readyAt, reads, exits>>

\* line 28, right-hand side: getTimeoutByUnaryServerInfo(info, timeout).
\* The read of `timeout` and the Load are one step: entries are never
\* deleted, so a Load that misses would have missed when `timeout` was read.
Resolve(sv) ==
    /\ spc = "resolve"
    /\ tmp' = getTimeoutByUnaryServerInfo(strat, sv, route, methodTimeout, timeout)
    /\ via' = ResolvedVia(strat, route, methodTimeout)
    /\ spc' = "assign"
    /\ stratCall' = IF strat
                    THEN [called |-> TRUE, route |-> route, dflt |-> timeout, ret |-> sv]
                    ELSE NoStratCall
    /\ resolves' = resolves + 1
    /\ UNCHANGED <<lastSet, beginEntry, writtenSince, ctxHist>>
    /\ UNCHANGED <<timeout, methodTimeout, effTimeout, infoVars, workerHist,
                   inboundCanceled, ctxErr, wpc, lock, done, panicChan, recvd, slot, outcome,
                   readyAt, reads, exits>>

Assign ==
    /\ spc = "assign"
    /\ timeout' = Assigned(timeout, tmp)
    /\ spc' = "withTimeout"
    /\ stratCall' = NoStratCall
    /\ beginEntry' = Unset
    /\ writtenSince' = {}
    /\ UNCHANGED <<lastSet, resolves, ctxHist>>
    /\ UNCHANGED <<methodTimeout, tmp, via, effTimeout, infoVars, workerHist,
                   inboundCanceled, ctxErr, wpc, lock, done, panicChan, recvd, slot, outcome,
                   readyAt, reads, exits>>

\* line 29: ctx, cancel := context.WithTimeout(ctx, timeout)
WithTimeout ==
    /\ spc = "withTimeout"
    /\ effTimeout' = timeout
    /\ ctxErr' = NewCtxErr(inboundCanceled, timeout)
    /\ spc' = "spawn"
    /\ tmp' = 0
    /\ deadlinePassed' = (timeout <= 0)
    /\ firstCause' = IF inboundCanceled THEN "Canceled"
                     ELSE IF timeout <= 0 THEN "DeadlineExceeded" ELSE "none"
    /\ UNCHANGED resolveHist
    /\ UNCHANGED <<timeout, methodTimeout, via, infoVars, workerHist,
                   inboundCanceled, wpc, lock, done, panicChan, recvd, slot, outcome, readyAt,
                   reads, exits>>

\* lines 32-38: the locals are created and the worker goroutine is started
Spawn ==
    /\ spc = "spawn"
    /\ wpc' = "start"
    /\ spc' = "select"
    /\ UNCHANGED <<resolveHist, ctxHist>>
    /\ UNCHANGED <<resolverVars, infoVars, workerHist, inboundCanceled, ctxErr, lock, done,
                   panicChan, recvd, slot, outcome, readyAt, reads, exits>>

\* which select cases are ready
ReadyCases == [panic |-> panicChan # <<>>, done |-> done, ctx |-> ctxErr]

\* lines 52-59: the cases a select may proceed with, given the ready ones
\* (one of them, chosen at random); none means the goroutine parks
SelectChoicesDoneAlways(rdy) ==
    {"caseDone"} \cup (IF rdy.panic THEN {"casePanic"} ELSE {})
        \cup (IF rdy.ctx # "none" THEN {"caseCtx"} ELSE {})
SelectChoices(rdy) ==
    (IF rdy.panic THEN {"casePanic"} ELSE {}) \cup (IF rdy.done THEN {"caseDone"} ELSE {})
        \cup (IF rdy.ctx # "none" THEN {"caseCtx"} ELSE {})

Select ==
    /\ spc = "select"
    /\ LET rdy == ReadyCases IN
       IF SelectChoices(rdy) = {}
       THEN /\ spc' = "parked"
            /\ UNCHANGED <<panicChan, recvd, readyAt>>
       ELSE \E c \in SelectChoices(rdy) :
            /\ spc' = c
            /\ readyAt' = rdy
            /\ IF c = "casePanic"
               THEN /\ recvd' = Head(panicChan)
                    /\ panicChan' = Tail(panicChan)
               ELSE UNCHANGED <<panicChan, recvd>>
    /\ UNCHANGED <<resolveHist, ctxHist>>
    /\ UNCHANGED <<resolverVars, infoVars, workerHist, inboundCanceled, ctxErr, wpc, lock,
                   done, slot, outcome, reads, exits>>

\* lines 53-54: panic(p); the deferred cancel() runs
PanicOutcomeWrapped(p) == Panicked([p EXCEPT !.desc = "wrapped"])
PanicOutcome(p) == Panicked(p)

BranchPanic ==
    /\ spc = "casePanic"
    /\ outcome' = PanicOutcome(recvd)
    /\ ctxErr' = AfterCancel(ctxErr)
    /\ exits' = exits + 1
    /\ spc' = "panicked"
    /\ UNCHANGED <<resolveHist, ctxHist>>
    /\ UNCHANGED <<resolverVars, infoVars, workerHist, inboundCanceled, wpc, lock, done,
                   panicChan, recvd, slot, readyAt, reads>>

\* line 56: lock.Lock() blocks while the worker holds the mutex
MutexFreeIgnored(l) == TRUE
MutexFree(l) == l = "free"

BranchDoneLock ==
    /\ spc = "caseDone"
    /\ MutexFree(lock)
    /\ lock' = "supervisor"
    /\ spc' = "reading"
    /\ UNCHANGED <<resolveHist, ctxHist>>
    /\ UNCHANGED <<resolverVars, infoVars, workerHist, inboundCanceled, ctxErr, wpc, done,
                   panicChan, recvd, slot, outcome, readyAt, reads, exits>>

\* lines 57-58: return resp, err; the deferred Unlock and cancel() run
DoneOutcomeDropErr(s) == Returned(s.resp, NilErr)
DoneOutcome(s) == Returned(s.resp, s.err)

BranchDoneReturn ==
    /\ spc = "reading"
    /\ outcome' = DoneOutcome(slot)
    /\ reads' = reads + 1
    /\ lock' = "free"
    /\ ctxErr' = AfterCancel(ctxErr)
    /\ exits' = exits + 1
    /\ spc' = "returned"
    /\ UNCHANGED <<resolveHist, ctxHist>>
    /\ UNCHANGED <<resolverVars, infoVars, workerHist, inboundCanceled, wpc, done,
                   panicChan, recvd, slot, readyAt>>

\* lines 59-66: return nil, err with err the mapped ctx.Err()
CtxOutcomeOuterResp(e, s) == Returned(s.resp, CtxErrToStatus(e))
CtxOutcome(e, s) == Returned(NilResp, CtxErrToStatus(e))

BranchCtx ==
    /\ spc = "caseCtx"
    /\ outcome' = CtxOutcome(ctxErr, slot)
    /\ exits' = exits + 1
    /\ spc' = "returned"
    /\ UNCHANGED <<resolveHist, ctxHist>>
    /\ UNCHANGED <<resolverVars, infoVars, workerHist, inboundCanceled, ctxErr, wpc, lock,
                   done, panicChan, recvd, slot, readyAt, reads>>

\* ---------------------------------------------------------------------
\* Worker goroutine (lines 38-50)
\* ---------------------------------------------------------------------
\* line 46: lock.Lock()
WLock ==
    /\ wpc = "start"
    /\ MutexFree(lock)
    /\ lock' = "worker"
    /\ wpc' = "handler"
    /\ UNCHANGED <<resolveHist, ctxHist>>
    /\ UNCHANGED <<resolverVars, infoVars, workerHist, inboundCanceled, ctxErr, spc, done,
                   panicChan, recvd, slot, outcome, readyAt, reads, exits>>

\* line 48: resp, err = handler(ctx, req), the handler returning res
HandlerReturns(res) ==
    /\ wpc = "handler"
    /\ slot' = res
    /\ hret' = res
    /\ writes' = writes + 1
    /\ ctxAtRet' = ctxErr
    /\ wpc' = "ret"
    /\ UNCHANGED <<resolveHist, ctxHist>>
    /\ UNCHANGED <<resolverVars, infoVars, hfault, hrecovered, ctxAtDone, sends,
                   inboundCanceled, ctxErr, spc, lock, done, panicChan, recvd, outcome, readyAt, reads, exits>>

\* lines 48-49: close(done) is a plain statement after the handler call, not
\* a deferred one, so a panic in the handler skips it
ClosedOnPanicDeferred(d) == TRUE
ClosedOnPanic(d) == d

\* line 48: the handler panics with p; nothing is assigned
HandlerPanics(p) ==
    /\ wpc = "handler"
    /\ hfault' = p
    /\ done' = ClosedOnPanic(done)
    /\ ctxAtRet' = ctxErr
    /\ wpc' = "panicking"
    /\ UNCHANGED <<resolveHist, ctxHist>>
    /\ UNCHANGED <<resolverVars, infoVars, hret, hrecovered, ctxAtDone, sends, writes,
                   inboundCanceled, ctxErr, spc, lock, panicChan, recvd, slot, outcome, readyAt, reads,
                   exits>>

\* line 49: close(done)
WClose ==
    /\ wpc = "ret"
    /\ done' = TRUE
    /\ spc' = WakeSpc("caseDone")
    /\ readyAt' = WakeReady([NothingReady EXCEPT !.done = TRUE])
    /\ ctxAtDone' = ctxErr
    /\ wpc' = "closed"
    /\ UNCHANGED <<resolveHist, ctxHist>>
    /\ UNCHANGED <<resolverVars, infoVars, hret, hfault, hrecovered, ctxAtRet, sends, writes,
                   inboundCanceled, ctxErr, lock, panicChan, recvd, slot, outcome, reads, exits>>

\* line 47: the deferred lock.Unlock(); it runs after close(done) on a
\* normal return (the deferred recover() then yields nil and the goroutine
\* ends) and first of the deferred calls when the handler panicked
UnlockedKeepsHeld(l) == l
Unlocked(l) == "free"

WUnlock ==
    /\ wpc \in {"closed", "panicking"}
    /\ lock' = Unlocked(lock)
    /\ wpc' = IF wpc = "closed" THEN "exited" ELSE "recovering"
    /\ UNCHANGED <<resolveHist, ctxHist>>
    /\ UNCHANGED <<resolverVars, infoVars, workerHist, inboundCanceled, ctxErr, spc, done,
                   panicChan, recvd, slot, outcome, readyAt, reads, exits>>

\* a send on panicChan proceeds when the buffer has room
ChanHasRoomUnbuffered(ch) == FALSE
ChanHasRoom(ch) == Len(ch) < PanicChanCap

\* lines 39-44: p := recover(); if p != nil the relayed failure is sent on
\* panicChan: handed to a receiver parked in the select, or buffered
WRecover(v) ==
    /\ wpc = "recovering"
    /\ v \in Recovered(hfault)
    /\ hrecovered' = v
    /\ IF v = "nil"
       THEN UNCHANGED <<spc, recvd, readyAt, panicChan, sends>>
       ELSE /\ sends' = sends + 1
            /\ IF spc = "parked"
               THEN /\ spc' = "casePanic"
                    /\ recvd' = RelayedFailure(v, StackTrace)
                    /\ readyAt' = [NothingReady EXCEPT !.panic = TRUE]
                    /\ UNCHANGED panicChan
               ELSE /\ ChanHasRoom(panicChan)
                    /\ panicChan' = Append(panicChan, RelayedFailure(v, StackTrace))
                    /\ UNCHANGED <<spc, recvd, readyAt>>
    /\ wpc' = "exited"
    /\ UNCHANGED <<resolveHist, ctxHist>>
    /\ UNCHANGED <<resolverVars, infoVars, hret, hfault, ctxAtRet, ctxAtDone, writes,
                   inboundCanceled, ctxErr, lock, done, slot, outcome, reads, exits>>

\* ---------------------------------------------------------------------
\* Specifications
\* ---------------------------------------------------------------------
SupervisorStep ==
    \/ \E sv \in (IF strat THEN Durations ELSE {0}) : Resolve(sv)
    \/ Assign
    \/ WithTimeout
    \/ Spawn
    \/ Select
    \/ BranchPanic
    \/ BranchDoneLock
    \/ BranchDoneReturn
    \/ BranchCtx

\* the worker's own steps, the handler's return or panic excluded
WorkerStep ==
    \/ WLock
    \/ WClose
    \/ WUnlock
    \/ \E v \in {"nil", "PanicNilError"} \cup FaultValues : WRecover(v)

\* with a TimeoutStrategy the resolver does not read the route, so one route
\* stands for every route of an invocation on such a server
AnyRoute == CHOOSE r \in Routes : TRUE

\* the steps of the observed invocation and of its caller, handler and timer
ExecNext ==
    \/ \E r \in Routes, s \in BOOLEAN : Invoke(r, s)
    \/ SupervisorStep
    \/ WorkerStep
    \/ \E res \in HandlerResults : HandlerReturns(res)
    \/ \E p \in FaultValues : HandlerPanics(p)
    \/ DeadlineFires
    \/ CancelInbound

Next ==
    \/ \E r \in Routes, d \in Durations : SetTimeoutForFullMethod(r, d)
    \/ \E r \in Routes : OtherInvocation(r, FALSE, 0)
    \/ \E sv \in Durations : OtherInvocation(AnyRoute, TRUE, sv)
    \/ ExecNext

Spec == Init /\ [][Next]_vars

\* One invocation under fair scheduling: goroutines that can run do run, and
\* the timer of a call context fires; nothing obliges a handler to return or
\* a caller to cancel. Registrations and other invocations, which enable or
\* disable no step of this one once it has been called, are left out.
FairSpec ==
    /\ Init /\ [][ExecNext]_vars
    /\ WF_vars(SupervisorStep)
    /\ WF_vars(WorkerStep)
    /\ WF_vars(DeadlineFires)

TypeOK ==
    /\ timeout \in Durations
    /\ outcome.kind \in {"Pending", "Succeeded", "Failed", "DeadlineExceeded", "Canceled",
                        "Faulted"}
    /\ lock \in {"free", "worker", "supervisor"}
    /\ Len(panicChan) <= PanicChanCap
    /\ resolves \in 0..1
    /\ \A r \in Routes : lastSet[r] \in Durations \cup {Unset}
    /\ beginEntry \in Durations \cup {Unset}
    /\ writtenSince \subseteq Durations
    /\ deadlinePassed \in BOOLEAN
    /\ firstCause \in {"none", "DeadlineExceeded", "Canceled"}

\* ---------------------------------------------------------------------
\* Properties
\* ---------------------------------------------------------------------
Kinds == {"Succeeded", "Failed", "DeadlineExceeded", "Canceled", "Faulted"}
DeadlineOutcome == Returned(NilResp, StatusError("DeadlineExceeded", "context deadline exceeded"))
CanceledOutcome == Returned(NilResp, StatusError("Canceled", "context canceled"))
HandlerOutcome == Returned(hret.resp, hret.err)
\* the handler has neither returned nor panicked
HandlerRunning == wpc \in {"start", "handler"}

\* C1: the invocation leaves Pending at most once: the wrapper returns or
\* panics at most once, with one of the five terminal outcomes, and once it
\* has, no later step (late handler return, late panic, late deadline or
\* cancel) changes the outcome.
C1_OutcomeDecidedOnce ==
    [][/\ outcome # Pending => outcome' = outcome
       /\ outcome' # Pending => outcome'.kind \in Kinds
       /\ exits' <= 1
       /\ (exits' = 1) <=> (outcome' # Pending)]_vars
\* the wrapper returned DeadlineExceeded, and afterwards the handler returned,
\* the worker finished and the caller canceled
C1_Witness ==
    /\ outcome = DeadlineOutcome
    /\ done /\ ~readyAt.done
    /\ wpc = "exited"
    /\ inboundCanceled

\* C2 as stated: whenever the handler returned and closed done while the
\* call context was not done, and the inbound context is not canceled, the
\* wrapper's outcome is the handler's (resp, err), also when the select is
\* evaluated after the deadline has fired.
C2_Original ==
    (outcome # Pending /\ hret # NoRet /\ ctxAtDone = "none" /\ ~inboundCanceled)
        => outcome = HandlerOutcome
\* C2 amended: when the completion marker is ready and the call context is
\* not done at the moment the race is decided, the outcome is exactly the
\* handler's (resp, err).
C2_HandlerResultWhenCtxLive ==
    (outcome # Pending /\ readyAt.done /\ readyAt.ctx = "none")
        => (hret # NoRet /\ outcome = HandlerOutcome)
C2_Witness ==
    /\ outcome.kind = "Failed"
    /\ readyAt = [NothingReady EXCEPT !.done = TRUE]
    /\ outcome.err = HandlerErr

\* C3 as stated: an invocation that resolves its timeout by the default
\* branch (no TimeoutStrategy, no registry entry) runs with the duration
\* UnaryTimeoutInterceptor was given, whatever invocations preceded it.
C3_Original ==
    (CtxExists /\ via = "default") => effTimeout = defaultTimeout

\* C4: if the handler has neither returned nor panicked and the deadline
\* elapsed before any inbound cancellation, an outcome that was returned is
\* DeadlineExceeded with a nil response.
C4_DeadlineExceeded ==
    (outcome # Pending /\ HandlerRunning /\ ctxErr = "DeadlineExceeded")
        => (outcome = DeadlineOutcome /\ outcome.resp = NilResp
            /\ outcome.err.code = "DeadlineExceeded")
C4_Witness ==
    /\ outcome.kind = "DeadlineExceeded"
    /\ wpc = "handler"
    /\ ~inboundCanceled

\* the inbound context was canceled before the handler completed and before
\* the deadline: the wrapper's own cancel() runs only after the handler has
\* completed or the context is done
CanceledFirst ==
    \/ ctxAtRet = "Canceled"
    \/ HandlerRunning /\ ctxErr = "Canceled"

\* C5 as stated: if the inbound context is canceled before the handler
\* completes and before the deadline, the outcome is Canceled with a nil
\* response.
C5_Original ==
    (outcome # Pending /\ CanceledFirst) => outcome = CanceledOutcome
\* C5 amended: if the inbound context is canceled before the deadline and
\* neither the completion marker nor a relayed failure is ready when the
\* race is decided, the outcome is Canceled with a nil response; and when the
\* inbound context is canceled before the handler completes and before the
\* deadline, the outcome is never DeadlineExceeded.
C5_CanceledWhenOnlyCtxReady ==
    /\ (outcome # Pending /\ readyAt = [NothingReady EXCEPT !.ctx = "Canceled"])
           => outcome = CanceledOutcome
    /\ (outcome # Pending /\ CanceledFirst) => outcome.kind # "DeadlineExceeded"
C5_Witness ==
    /\ outcome.kind = "Canceled"
    /\ inboundCanceled
    /\ wpc = "handler"

\* C6: when the outcome is Faulted the handler panicked, the value the
\* supervisor panics with is the recovered value followed by a blank line
\* and the worker's stack trace, and nothing is returned normally.
C6_FaultRelayedUnchanged ==
    outcome.kind = "Faulted" =>
        /\ hfault \in FaultValues
        /\ hrecovered \notin {"none", "nil"}
        /\ outcome.panic = [desc |-> hrecovered, sep |-> "\n\n", stack |-> StackTrace]
        /\ outcome.resp = NilResp /\ outcome.err = NilErr
        /\ reads = 0
C6_Witness ==
    /\ outcome.kind = "Faulted"
    /\ hfault = "boom"
    /\ outcome.panic.desc = "boom"

\* C7: under fair scheduling every invocation eventually returns a terminal
\* outcome; a supervisor waiting for the mutex eventually holds it; and an
\* invocation that ended DeadlineExceeded, Canceled or Faulted has left
\* without touching the mutex.
C7_EventuallyReturns ==
    /\ (spc # "idle") ~> (outcome # Pending)
    /\ (spc = "caseDone") ~> (spc = "reading")
    /\ [](outcome.kind \in {"DeadlineExceeded", "Canceled", "Faulted"}
            => (spc \in {"returned", "panicked"} /\ lock # "supervisor" /\ reads = 0))
\* the supervisor has chosen the completion path while the worker holds the mutex
C7_Witness ==
    /\ spc = "caseDone"
    /\ lock = "worker"

\* C8: at most one send on panicChan, never more than one item in it, a
\* worker about to send always has room; and a worker whose handler has
\* returned or panicked terminates.
C8_SendNeverBlocks ==
    /\ [](/\ sends <= 1
          /\ Len(panicChan) <= 1
          /\ (wpc = "recovering" /\ spc # "parked") => Len(panicChan) < PanicChanCap)
    /\ (wpc \in {"ret", "closed", "panicking", "recovering"}) ~> (wpc = "exited")
\* the relayed failure sits in the buffer after the wrapper has returned
C8_Witness ==
    /\ Len(panicChan) = 1
    /\ spc = "returned"
    /\ wpc = "exited"
    /\ sends = 1

\* C9: the slot is written at most once and read at most once, the
\* supervisor never reads while the worker holds the mutex, and what it
\* reads is what the handler returned.
C9_SlotWrittenThenRead ==
    /\ writes <= 1
    /\ reads <= 1
    /\ spc = "reading" =>
        /\ wpc \notin {"handler", "ret", "closed", "panicking"}
        /\ lock = "supervisor"
        /\ writes = 1
        /\ hret # NoRet
        /\ slot = hret
    /\ reads = 1 => (outcome = HandlerOutcome /\ outcome # Returned(EmptySlot.resp, EmptySlot.err))
C9_Witness ==
    /\ spc = "reading"
    /\ writes = 1
    /\ slot.resp = "ok"

\* C10: once the wrapper has returned DeadlineExceeded or Canceled, the
\* supervisor takes no further step: the outcome stays as it is, with a nil
\* response, the slot is never read and nothing is received from panicChan.
C10_LateCompletionUnobserved ==
    [][outcome.kind \in {"DeadlineExceeded", "Canceled"} =>
         /\ outcome' = outcome
         /\ outcome.resp = NilResp
         /\ outcome.panic = NoPanic
         /\ spc' = "returned"
         /\ reads' = 0
         /\ recvd' = NoPanic
         /\ Len(panicChan') >= Len(panicChan)]_vars
\* the handler panicked after the race was decided for the deadline
C10_Witness ==
    /\ outcome.kind = "DeadlineExceeded"
    /\ readyAt = [NothingReady EXCEPT !.ctx = "DeadlineExceeded"]
    /\ hfault = "boom"
    /\ Len(panicChan) = 1

\* ---------------------------------------------------------------------
\* C11: on a server that implements TimeoutStrategy the resolver calls the
\* strategy with the route and the default it was given and returns the
\* strategy's result, whatever the registry holds for that route; the
\* registry branch is not taken.
ResolveStep == spc = "resolve" /\ spc' = "assign"

C11_StrategyWins ==
    [][(ResolveStep /\ strat) =>
          /\ stratCall'.called
          /\ stratCall'.route = route
          /\ stratCall'.dflt = timeout
          /\ tmp' = stratCall'.ret
          /\ via' = "strategy"]_vars

\* the strategy's result was taken although the registry holds a different
\* duration for the same route
C11_Witness ==
    /\ spc = "assign"
    /\ strat
    /\ stratCall.called
    /\ tmp = stratCall.ret
    /\ route \in DOMAIN methodTimeout
    /\ methodTimeout[route] # tmp

\* ---------------------------------------------------------------------
\* C12: the registry holds, for every route, exactly the duration of the
\* most recent SetTimeoutForFullMethod call for that route and nothing for
\* a route never set (last write wins, other routes untouched); a
\* resolution without TimeoutStrategy returns that duration if there is one
\* and the default it was given otherwise; storing the (route, duration)
\* just stored a second time changes nothing.
RegistryIsLastSet ==
    \A r \in Routes :
        IF lastSet[r] = Unset THEN r \notin DOMAIN methodTimeout
        ELSE r \in DOMAIN methodTimeout /\ methodTimeout[r] = lastSet[r]

C12_LastWriteWins ==
    [][/\ (methodTimeout' # methodTimeout \/ lastSet' # lastSet) =>
             /\ RegistryIsLastSet'
             /\ \A r \in Routes :
                   (lastSet'[r] # lastSet[r]) =>
                       Store(methodTimeout', r, lastSet'[r]) = methodTimeout'
       /\ (ResolveStep /\ ~strat) =>
             /\ RegistryIsLastSet
             /\ tmp' = IF lastSet[route] # Unset THEN lastSet[route] ELSE timeout]_vars

\* the route was set before the resolution began and set again, to another
\* duration, before the lookup; the resolution returned the later one, and
\* the other route holds its own, different duration
C12_Witness ==
    /\ spc = "assign"
    /\ ~strat
    /\ beginEntry # Unset
    /\ writtenSince # {}
    /\ tmp = lastSet[route]
    /\ tmp # beginEntry
    /\ \E x \in Routes \ {route} : lastSet[x] # Unset /\ lastSet[x] # tmp

\* ---------------------------------------------------------------------
\* C13: with SetTimeoutForFullMethod calls interleaved with a resolution
\* (no TimeoutStrategy), the resolution returns the default only if no
\* write to its route completed before the lookup, and otherwise a duration
\* written for its route: the one in place when the resolution began or one
\* written since, never an older one and never another route's.
WrittenForRoute == writtenSince \cup (IF beginEntry # Unset THEN {beginEntry} ELSE {})

C13_ResolutionSeesOwnRoute ==
    (spc = "assign" /\ ~strat) =>
        /\ via \in {"default", "registry"}
        /\ via = "default" => WrittenForRoute = {}
        /\ via = "registry" => tmp \in WrittenForRoute

\* two different durations were written to the route while the resolution
\* was under way, the other route holds a third one, and the resolution
\* returned one of the two
C13_Witness ==
    /\ spc = "assign"
    /\ ~strat
    /\ Cardinality(writtenSince) >= 2
    /\ tmp \in writtenSince
    /\ \E x \in Routes \ {route} : lastSet[x] # Unset /\ lastSet[x] \notin writtenSince

\* ---------------------------------------------------------------------
\* C14: once the handler has panicked, done is never closed and resp, err
\* are never assigned, so the wrapper's outcome is never the handler's
\* result: it is the re-raised fault, DeadlineExceeded or Canceled.
C14_FaultNeverCompletes ==
    hfault # "none" =>
        /\ ~done
        /\ slot = EmptySlot
        /\ writes = 0
        /\ hret = NoRet
        /\ outcome.kind \in {"Pending", "Faulted", "DeadlineExceeded", "Canceled"}

\* the handler panicked with a nil value, recover() returned nil so nothing
\* was relayed, the worker is gone and the deadline decided the invocation
C14_Witness ==
    /\ hfault = "nilpanic"
    /\ hrecovered = "nil"
    /\ wpc = "exited"
    /\ sends = 0
    /\ outcome.kind = "DeadlineExceeded"

\* ---------------------------------------------------------------------
\* C15: the case the select proceeds with is one whose event has occurred:
\* when the select is evaluated, a relayed failure is in panicChan, done is
\* closed or the call context is done, and the select parks only if none
\* is; a parked select is resumed by the event that occurs in that very
\* step. So if exactly one event has occurred it decides. The outcome then
\* is the one of the case taken. (That the fault may be the one re-raised
\* when the context is done as well is what the witness shows.)
C15_ChosenEventOccurred ==
    [][/\ (spc = "select" /\ spc' # spc) =>
            \/ spc' = "parked" /\ panicChan = <<>> /\ ~done /\ ctxErr = "none"
            \/ spc' = "casePanic" /\ panicChan # <<>> /\ recvd' = Head(panicChan)
            \/ spc' = "caseDone" /\ done
            \/ spc' = "caseCtx" /\ ctxErr # "none"
       /\ (spc = "parked" /\ spc' # spc) =>
            \/ spc' = "casePanic" /\ sends' = sends + 1 /\ recvd'.desc = hrecovered'
            \/ spc' = "caseDone" /\ ~done /\ done'
            \/ spc' = "caseCtx" /\ ctxErr = "none" /\ ctxErr' # "none"
       /\ (outcome' # outcome) =>
            \/ spc = "casePanic" /\ outcome'.kind = "Faulted"
            \/ spc = "reading" /\ outcome'.kind \in {"Succeeded", "Failed"}
            \/ spc = "caseCtx" /\ outcome'.kind \in {"DeadlineExceeded", "Canceled"}
       /\ (spc' = "reading" /\ spc # spc') => spc = "caseDone"]_vars

\* a relayed failure and a done call context were both ready when the
\* select was evaluated, and the fault was re-raised
C15_Witness ==
    /\ readyAt.panic
    /\ readyAt.ctx # "none"
    /\ ~readyAt.done
    /\ outcome.kind = "Faulted"

\* ---------------------------------------------------------------------
\* C16: once the wrapper has left the invocation, whichever way, the call
\* context is done (the deferred cancel() has run, if the context had not
\* ended before), so the handler can observe it; and no step in which the
\* wrapper or its worker moves of its own accord cancels the inbound
\* context.
C16_CallContextCanceledOnExit ==
    [][/\ (outcome' # Pending) => ctxErr' # "none"
       /\ (inboundCanceled' # inboundCanceled) =>
            /\ wpc' = wpc
            /\ outcome' = outcome
            /\ exits' = exits
            /\ spc' = spc \/ spc = "parked"]_vars

\* the wrapper returned the handler's result while the caller had not
\* canceled and no deadline had passed: the call context was canceled by the
\* wrapper's own cancel()
C16_Witness ==
    /\ outcome.kind = "Succeeded"
    /\ ctxErr = "Canceled"
    /\ ~inboundCanceled
    /\ ~deadlinePassed

\* ---------------------------------------------------------------------
\* C17 (as stated; the code does not satisfy it): the timeout is resolved
\* once, the call context is built with the value resolved for this
\* invocation, and nothing changes that duration afterwards, neither a
\* SetTimeoutForFullMethod call nor another invocation through the wrapper.
C17_Original ==
    [][/\ resolves' <= 1
       /\ (spc = "resolve" /\ spc' # spc) => wpc = "none"
       /\ (spc = "withTimeout" /\ spc' = "spawn") => effTimeout' = tmp
       /\ (CtxExists /\ CtxExists') => effTimeout' = effTimeout]_vars

\* ---------------------------------------------------------------------
\* C18: an outcome on the cancellation path carries the first cause that
\* ended the call context, with its message: DeadlineExceeded if the
\* deadline passed first, whatever the caller did afterwards, and Canceled
\* if the inbound context was canceled first, whatever the deadline did
\* afterwards; one of the two, never the other.
C18_FirstCauseSticky ==
    (outcome.kind \in {"DeadlineExceeded", "Canceled"}) =>
        /\ firstCause \in {"DeadlineExceeded", "Canceled"}
        /\ outcome.kind = firstCause
        /\ outcome.err.type = "status"
        /\ outcome.err.code = firstCause
        /\ outcome.err.msg = (IF firstCause = "Canceled" THEN "context canceled"
                              ELSE "context deadline exceeded")
        /\ outcome.resp = NilResp

\* the inbound context was canceled while the deadline had not passed, the
\* deadline passed before the wrapper returned, and Canceled was reported
C18_Witness ==
    /\ outcome.kind = "Canceled"
    /\ firstCause = "Canceled"
    /\ inboundCanceled
    /\ deadlinePassed
    /\ effTimeout > 0

====
